---- MODULE Spec2Model ----
(***************************************************************************)
(* img2dmg: the job queue of src/App.tsx.                                  *)
(*                                                                         *)
(* The App component keeps the job list (items), the palette mode and the  *)
(* busy flag as React state.  A queue watcher effect picks the first       *)
(* queued job whenever the processor is idle and starts one asynchronous   *)
(* conversion; the conversion's promise handlers apply the result by job   *)
(* id when it settles.  Object URLs (URL.createObjectURL) are the result   *)
(* buffers; they stay alive until URL.revokeObjectURL.                     *)
(*                                                                         *)
(* JavaScript runs the handlers one at a time, so each event handler,      *)
(* each effect pass and each promise settlement is one atomic action.      *)
(***************************************************************************)
EXTENDS Integers, Sequences, FiniteSets, TLC

(* ------------------------------ bounds -------------------------------- *)
\* files the user may hand over in total (each gets a fresh id)
MaxJobs == 3
\* files in one enqueueFiles call
MaxBatch == 2
\* palette-mode toggles the user performs
MaxToggles == 2
\* clear-list clicks the user performs
MaxClears == 1

(* ------------------------- values of the program ----------------------- *)
\* an absent (undefined) optional field of Item
NoUrl == 0
NoDim == 0
NoError == "undefined"
\* the id held by no conversion
NoId == 0

PaletteModes == {"dmg", "gray"}
Statuses == {"queued", "processing", "done", "error"}

(* ------------------------------- names --------------------------------- *)
\* A file name is the sequence of its characters.
APng == <<"a", ".", "p", "n", "g">>
AJpg == <<"a", ".", "j", "p", "g">>
BJpg == <<"b", ".", "j", "p", "g">>
BPngUpper == <<"b", ".", "P", "N", "G">>
DotPng == <<".", "p", "n", "g">>
BarePng == <<"p", "n", "g">>
ATarPng == <<"a", ".", "t", ".", "p", "n", "g">>
NotesTxt == <<"n", ".", "t", "x", "t">>
XZip == <<"x", ".", "z", "i", "p">>
YZipUpper == <<"y", ".", "Z", "I", "P">>

\* String.prototype.toLowerCase, on one character
LowerChar(c) ==
    CASE c = "P" -> "p" [] c = "N" -> "n" [] c = "G" -> "g"
      [] c = "Z" -> "z" [] c = "I" -> "i"
      [] OTHER -> c

\* name.toLowerCase()
ToLowerCase(name) == [i \in 1..Len(name) |-> LowerChar(name[i])]

\* name.split("."): the pieces between the dots (at least one piece)
RECURSIVE SplitDot(_)
SplitDot(name) ==
    IF \A i \in 1..Len(name) : name[i] # "."
    THEN <<name>>
    ELSE LET d == CHOOSE i \in 1..Len(name) :
                     name[i] = "." /\ \A j \in 1..(i - 1) : name[j] # "."
         IN  <<SubSeq(name, 1, d - 1)>> \o SplitDot(SubSeq(name, d + 1, Len(name)))

\* parts.join(".")
RECURSIVE JoinDot(_)
JoinDot(parts) ==
    IF Len(parts) = 0 THEN <<>>
    ELSE IF Len(parts) = 1 THEN parts[1]
    ELSE parts[1] \o <<".">> \o JoinDot(Tail(parts))

\* extFromName: name.toLowerCase().split(".").pop() ?? ""
\* (split never yields an empty array, so pop never yields undefined)
ExtFromName(name) ==
    LET parts == SplitDot(ToLowerCase(name)) IN
    IF Len(parts) = 0 THEN <<>> ELSE parts[Len(parts)]

\* mutant: baseName keeps only the text before the first dot
BaseNameFirstPart(name) ==
    LET parts == SplitDot(name) IN
    IF parts[1] = <<>> THEN name ELSE parts[1]

\* baseName: parts.pop(); return parts.join(".") || name
BaseName(name) ==
    LET parts == SplitDot(name)
        joined == JoinDot(SubSeq(parts, 1, Len(parts) - 1))
    IN  IF joined = <<>> THEN name ELSE joined

SUPPORTED_EXTS ==
    {<<"p", "n", "g">>, <<"j", "p", "g">>, <<"j", "p", "e", "g">>,
     <<"w", "e", "b", "p">>}

\* isSupportedExt
IsSupportedExt(ext) == ext \in SUPPORTED_EXTS

\* the name of the k-th file the user hands over
FileOf(k) == IF k % 2 = 1 THEN APng ELSE BJpg

\* bitmap.width / bitmap.height of a decoded source file
WidthOf(file) == IF file = APng THEN 1 ELSE 2
HeightOf(file) == IF file = APng THEN 2 ELSE 1

\* the messages a rejected conversion carries
ErrorMessages == {"Canvas not supported", "Failed to encode image"}

VARIABLES
    items,        \* useState<Item[]>: the job list, in insertion order
    paletteMode,  \* useState<PaletteMode>
    busy,         \* useState(false): the processor's busy flag
    conv,         \* the conversion in flight: the closure of the watcher effect
    live,         \* object URLs created and not yet revoked
    nextId,       \* ids handed out so far (crypto.randomUUID never repeats)
    nextUrl,      \* object URLs handed out so far
    toggles,      \* palette-mode toggles performed
    clears,       \* clear-list clicks performed
    since,        \* history: what happened since the conversion in flight started
    picks,        \* history: picks of each job since the last palette-mode change
    resetFrom,    \* history: the statuses the last palette-mode change found,
                  \* until the next pick
    message,      \* useState<string | null>: the transient notice
    input,        \* the files of the drop handed to handleFiles
    handled,      \* handleFiles has run on the input
    exp,          \* the archive export in flight: the closure of the handler
    out,          \* the last download the page triggered
    img           \* the pixel data of the canvas of one convertToDmg call

\* the state of ingestion, export and the canvas
ioVars == <<message, input, handled, exp, out, img>>

vars == <<items, paletteMode, busy, conv, live, nextId, nextUrl, toggles,
          clears, since, picks, resetFrom, message, input, handled, exp, out,
          img>>

NoConv == [active |-> FALSE, id |-> NoId, file |-> <<>>, palette |-> "dmg"]
NoSince == [toggled |-> FALSE, cleared |-> FALSE]
\* useState<string | null>(null)
NoMessage == "null"
NoExp == [active |-> FALSE, scope |-> "none", mode |-> "dmg", jobs |-> <<>>]
NoOut == [kind |-> "none", name |-> <<>>, entries |-> {}, jobs |-> <<>>]
NoImg == [src |-> <<>>, mode |-> "dmg", data |-> <<>>, passes |-> 0]

(* ------------------------------ helpers -------------------------------- *)
Ids(its) == {its[i].id : i \in 1..Len(its)}
Urls(its) == {its[i].blobUrl : i \in 1..Len(its)} \ {NoUrl}

\* enqueueFiles: the Item made of one file
NewItem(id, file) ==
    [id |-> id, name |-> file, ext |-> ExtFromName(file), status |-> "queued",
     blobUrl |-> NoUrl, width |-> NoDim, height |-> NoDim, error |-> NoError,
     selected |-> FALSE]

Init ==
    /\ items = <<>>
    /\ paletteMode = "dmg"
    /\ busy = FALSE
    /\ conv = NoConv
    /\ live = {}
    /\ nextId = 0
    /\ nextUrl = 0
    /\ toggles = 0
    /\ clears = 0
    /\ since = NoSince
    /\ picks = [id \in 1..MaxJobs |-> 0]
    /\ resetFrom = {}
    /\ message = NoMessage
    /\ input = <<>>
    /\ handled = FALSE
    /\ exp = NoExp
    /\ out = NoOut
    /\ img = NoImg

\* mutant: the new items are put in front of the list
EnqueueFilesPrepend ==
    \E n \in 1..MaxBatch :
        /\ nextId + n <= MaxJobs
        /\ items' = [k \in 1..n |-> NewItem(nextId + k, FileOf(nextId + k))] \o items
        /\ nextId' = nextId + n
        /\ UNCHANGED <<paletteMode, busy, conv, live, nextUrl, toggles, clears,
                       since, picks, resetFrom>>
        /\ UNCHANGED ioVars

\* enqueueFiles(files): one queued Item per file, appended in order
EnqueueFiles ==
    \E n \in 1..MaxBatch :
        /\ nextId + n <= MaxJobs
        /\ items' = items \o [k \in 1..n |-> NewItem(nextId + k, FileOf(nextId + k))]
        /\ nextId' = nextId + n
        /\ UNCHANGED <<paletteMode, busy, conv, live, nextUrl, toggles, clears,
                       since, picks, resetFrom>>
        /\ UNCHANGED ioVars

(* --------------------------- palette mode ------------------------------ *)
\* mutant: the reset leaves the error message on the item
ResetItemKeepsError(item) ==
    [item EXCEPT !.status = "queued", !.blobUrl = NoUrl, !.width = NoDim,
                 !.height = NoDim]

\* mutant: the reset leaves the job in flight alone
ResetItemSkipsProcessing(item) ==
    IF item.status = "processing" THEN item
    ELSE [item EXCEPT !.status = "queued", !.blobUrl = NoUrl, !.width = NoDim,
                      !.height = NoDim, !.error = NoError]

\* mutant: the reset also clears the selection
ResetItemDeselects(item) ==
    [item EXCEPT !.status = "queued", !.blobUrl = NoUrl, !.width = NoDim,
                 !.height = NoDim, !.error = NoError, !.selected = FALSE]

\* mutant: the reset leaves a done item as it is
ResetItemKeepsDone(item) ==
    IF item.status = "done" THEN item
    ELSE [item EXCEPT !.status = "queued", !.blobUrl = NoUrl, !.width = NoDim,
                      !.height = NoDim, !.error = NoError]

\* the Item the palette-mode effect returns for an item
ResetItem(item) ==
    [item EXCEPT !.status = "queued", !.blobUrl = NoUrl, !.width = NoDim,
                 !.height = NoDim, !.error = NoError]

\* the palette button's onClick, then the effect on [paletteMode]: every
\* item's object URL is revoked and every item is reset
TogglePalette ==
    /\ toggles < MaxToggles
    /\ paletteMode' = (IF paletteMode = "dmg" THEN "gray" ELSE "dmg")
    /\ items' = [i \in 1..Len(items) |-> ResetItem(items[i])]
    /\ live' = live \ Urls(items)
    /\ toggles' = toggles + 1
    /\ since' = IF conv.active THEN [since EXCEPT !.toggled = TRUE] ELSE since
    /\ picks' = [id \in 1..MaxJobs |-> 0]
    /\ resetFrom' = {items[i].status : i \in 1..Len(items)}
    /\ UNCHANGED <<busy, conv, nextId, nextUrl, clears>>
    /\ UNCHANGED ioVars

(* --------------------------- queue watcher ----------------------------- *)
\* mutant: the watcher does not look at the busy flag
IdleAlways == TRUE

\* if (busy) return
Idle == busy = FALSE

\* mutant: the watcher takes the last queued item
LastQueued(its) ==
    IF \E i \in 1..Len(its) : its[i].status = "queued"
    THEN CHOOSE i \in 1..Len(its) :
            /\ its[i].status = "queued"
            /\ \A j \in (i + 1)..Len(its) : its[j].status # "queued"
    ELSE 0

\* mutant: the watcher takes the first item that is not finished successfully
FirstNotDone(its) ==
    IF \E i \in 1..Len(its) : its[i].status \in {"queued", "error"}
    THEN CHOOSE i \in 1..Len(its) :
            /\ its[i].status \in {"queued", "error"}
            /\ \A j \in 1..(i - 1) : its[j].status \notin {"queued", "error"}
    ELSE 0

\* items.find((item) => item.status === "queued"): its index, 0 when none
FirstQueued(its) ==
    IF \E i \in 1..Len(its) : its[i].status = "queued"
    THEN CHOOSE i \in 1..Len(its) :
            /\ its[i].status = "queued"
            /\ \A j \in 1..(i - 1) : its[j].status # "queued"
    ELSE 0

\* prev.map(item => item.id === next.id ? {...item, status: "processing"} : item)
MarkProcessing(its, id) ==
    [i \in 1..Len(its) |->
        IF its[i].id = id THEN [its[i] EXCEPT !.status = "processing"] ELSE its[i]]

\* the watcher effect on [busy, items], up to the start of convertToDmg
Pick ==
    /\ Idle
    /\ FirstQueued(items) # 0
    /\ LET next == items[FirstQueued(items)] IN
          /\ busy' = TRUE
          /\ items' = MarkProcessing(items, next.id)
          /\ conv' = [active |-> TRUE, id |-> next.id, file |-> next.name,
                      palette |-> paletteMode]
          /\ picks' = [picks EXCEPT ![next.id] = @ + 1]
    /\ since' = NoSince
    /\ resetFrom' = {}
    /\ UNCHANGED <<paletteMode, live, nextId, nextUrl, toggles, clears>>
    /\ UNCHANGED ioVars

\* mutant: the updater rebuilds the item from the effect's closure and
\* puts it back when the list no longer holds it
ApplyDoneFromClosure(its, id, url, w, h) ==
    IF \E i \in 1..Len(its) : its[i].id = id
    THEN [i \in 1..Len(its) |->
            IF its[i].id # id THEN its[i]
            ELSE [its[i] EXCEPT !.status = "done", !.blobUrl = url,
                                !.width = w, !.height = h]]
    ELSE its \o <<[NewItem(id, FileOf(id)) EXCEPT !.status = "done",
                      !.blobUrl = url, !.width = w, !.height = h]>>

\* the .then handler's updater: the item of the conversion becomes done
ApplyDone(its, id, url, w, h) ==
    [i \in 1..Len(its) |->
        IF its[i].id # id THEN its[i]
        ELSE [its[i] EXCEPT !.status = "done", !.blobUrl = url,
                            !.width = w, !.height = h]]

\* the object URLs the .then handler's updater revokes
RevokedByDone(its, id) ==
    {its[i].blobUrl : i \in {j \in 1..Len(its) : its[j].id = id}} \ {NoUrl}

\* the .catch handler's updater: the item of the conversion becomes error
ApplyError(its, id, msg) ==
    [i \in 1..Len(its) |->
        IF its[i].id # id THEN its[i]
        ELSE [its[i] EXCEPT !.status = "error", !.error = msg]]

\* mutant: there is no .finally after the .then handler
SettleSuccessKeepsBusy ==
    /\ conv.active
    /\ LET url == nextUrl + 1 IN
          /\ nextUrl' = url
          /\ live' = (live \cup {url}) \ RevokedByDone(items, conv.id)
          /\ items' = ApplyDone(items, conv.id, url, WidthOf(conv.file),
                                HeightOf(conv.file))
    /\ busy' = busy
    /\ conv' = NoConv
    /\ UNCHANGED <<paletteMode, nextId, toggles, clears, since, picks, resetFrom>>
    /\ UNCHANGED ioVars

\* convertToDmg resolves: .then, then .finally
SettleSuccess ==
    /\ conv.active
    /\ LET url == nextUrl + 1 IN
          /\ nextUrl' = url
          /\ live' = (live \cup {url}) \ RevokedByDone(items, conv.id)
          /\ items' = ApplyDone(items, conv.id, url, WidthOf(conv.file),
                                HeightOf(conv.file))
    /\ busy' = FALSE
    /\ conv' = NoConv
    /\ UNCHANGED <<paletteMode, nextId, toggles, clears, since, picks, resetFrom>>
    /\ UNCHANGED ioVars

\* mutant: setBusy(false) sits in the .then handler, so a rejection skips it
SettleFailureKeepsBusy ==
    /\ conv.active
    /\ \E msg \in ErrorMessages : items' = ApplyError(items, conv.id, msg)
    /\ busy' = busy
    /\ conv' = NoConv
    /\ UNCHANGED <<paletteMode, live, nextId, nextUrl, toggles, clears, since,
                   picks, resetFrom>>
    /\ UNCHANGED ioVars

\* convertToDmg rejects: .catch, then .finally
SettleFailure ==
    /\ conv.active
    /\ \E msg \in ErrorMessages : items' = ApplyError(items, conv.id, msg)
    /\ busy' = FALSE
    /\ conv' = NoConv
    /\ UNCHANGED <<paletteMode, live, nextId, nextUrl, toggles, clears, since,
                   picks, resetFrom>>
    /\ UNCHANGED ioVars

(* ----------------------------- user actions ---------------------------- *)
\* toggleSelected(id); the checkbox is disabled unless the item is done
ToggleSelected ==
    /\ \E k \in 1..Len(items) :
          /\ items[k].status = "done"
          /\ items' = [i \in 1..Len(items) |->
                          IF items[i].id = items[k].id
                          THEN [items[i] EXCEPT !.selected = ~@] ELSE items[i]]
    /\ UNCHANGED <<paletteMode, busy, conv, live, nextId, nextUrl, toggles,
                   clears, since, picks, resetFrom>>
    /\ UNCHANGED ioVars

\* selectAll
SelectAll ==
    /\ items' = [i \in 1..Len(items) |->
                    IF items[i].status = "done"
                    THEN [items[i] EXCEPT !.selected = TRUE] ELSE items[i]]
    /\ UNCHANGED <<paletteMode, busy, conv, live, nextId, nextUrl, toggles,
                   clears, since, picks, resetFrom>>
    /\ UNCHANGED ioVars

\* clearSelection
ClearSelection ==
    /\ items' = [i \in 1..Len(items) |-> [items[i] EXCEPT !.selected = FALSE]]
    /\ UNCHANGED <<paletteMode, busy, conv, live, nextId, nextUrl, toggles,
                   clears, since, picks, resetFrom>>
    /\ UNCHANGED ioVars

\* clearAll: every item's object URL is revoked, the list becomes empty
ClearAll ==
    /\ clears < MaxClears
    /\ live' = live \ Urls(items)
    /\ items' = <<>>
    /\ clears' = clears + 1
    /\ since' = IF conv.active THEN [since EXCEPT !.cleared = TRUE] ELSE since
    /\ UNCHANGED <<paletteMode, busy, conv, nextId, nextUrl, toggles, picks,
                   resetFrom>>
    /\ UNCHANGED ioVars

(* ------------------------------ ingestion ------------------------------ *)
\* entries of one archive, at most
MaxEntries == 2

\* a loose file; an archive and its entries; an archive JSZip cannot load
Image(name) == [name |-> name, entries |-> <<>>, corrupt |-> FALSE]
Archive(name, entries) == [name |-> name, entries |-> entries, corrupt |-> FALSE]
CorruptArchive(name) == [name |-> name, entries |-> <<>>, corrupt |-> TRUE]

\* the entries an archive may hold: files and a directory
EntryMenu ==
    {[name |-> n, dir |-> FALSE] : n \in {APng, BPngUpper, AJpg, NotesTxt}}
        \cup {[name |-> <<"d", "/">>, dir |-> TRUE]}

\* the archives the user may drop
Archives ==
    {Archive(XZip, es) :
        es \in UNION {[1..n -> EntryMenu] : n \in 0..MaxEntries}}

\* the drops the user may hand to handleFiles
Drops ==
    {<<z>> : z \in Archives}
        \cup {<<Image(APng), Image(AJpg)>>,
              <<Image(DotPng), Image(BPngUpper)>>,
              <<Image(BarePng)>>,
              <<Image(ATarPng)>>,
              <<Image(NotesTxt)>>,
              <<Image(NotesTxt), Image(APng)>>,
              <<CorruptArchive(XZip), Image(APng)>>,
              <<Image(APng),
                Archive(YZipUpper, <<[name |-> BJpg, dir |-> FALSE]>>)>>,
              <<Archive(XZip, <<[name |-> APng, dir |-> FALSE],
                                [name |-> BJpg, dir |-> FALSE]>>),
                Archive(XZip, <<[name |-> BJpg, dir |-> FALSE]>>)>>}

\* the text setToast shows for each rejection
ToastEmpty == "Zip is empty."
ToastUnsupported == "Zip contains unsupported image types."
ToastMixed == "Zip must contain only one image extension type."
ToastNothing == "Drop images or a zip of images to convert."

IsDir(e) == e.dir
NotDir(e) == ~e.dir
IsZip(f) == ExtFromName(f.name) = <<"z", "i", "p">>
IsImage(f) == IsSupportedExt(ExtFromName(f.name))

\* Object.values(zip.files).filter((entry) => !entry.dir)
FileEntries(zipFile) == SelectSeq(zipFile.entries, NotDir)

\* mutant: handleZip looks for mixed extensions before it looks at the first
MixedFirstVerdict(zipFile) ==
    LET entries == FileEntries(zipFile) IN
    IF zipFile.corrupt THEN "throw"
    ELSE IF Len(entries) = 0 THEN ToastEmpty
    ELSE IF \E i \in 1..Len(entries) :
               ExtFromName(entries[i].name) # ExtFromName(entries[1].name)
         THEN ToastMixed
    ELSE IF ~IsSupportedExt(ExtFromName(entries[1].name)) THEN ToastUnsupported
    ELSE "ok"

\* handleZip up to the extraction: what it decides about an archive
ZipVerdict(zipFile) ==
    LET entries == FileEntries(zipFile) IN
    IF zipFile.corrupt THEN "throw"
    ELSE IF Len(entries) = 0 THEN ToastEmpty
    ELSE IF ~IsSupportedExt(ExtFromName(entries[1].name)) THEN ToastUnsupported
    ELSE IF \E i \in 1..Len(entries) :
               ExtFromName(entries[i].name) # ExtFromName(entries[1].name)
         THEN ToastMixed
    ELSE "ok"

\* mutant: handleZip enqueues the entries that have the first entry's
\* extension and reports the others
ZipExtractedPartial(zipFile) ==
    LET entries == FileEntries(zipFile) IN
    IF zipFile.corrupt \/ Len(entries) = 0 THEN <<>>
    ELSE IF ~IsSupportedExt(ExtFromName(entries[1].name)) THEN <<>>
    ELSE LET Same(e) == ExtFromName(e.name) = ExtFromName(entries[1].name)
             same == SelectSeq(entries, Same)
         IN  [k \in 1..Len(same) |-> same[k].name]

\* handleZip: the names of the files it hands to enqueueFiles
ZipExtracted(zipFile) ==
    IF ZipVerdict(zipFile) = "ok"
    THEN LET entries == FileEntries(zipFile) IN
         [k \in 1..Len(entries) |-> entries[k].name]
    ELSE <<>>

\* for (const zip of zips) await handleZip(zip): the names enqueued, the last
\* notice set and whether a handleZip threw (which ends handleFiles)
RECURSIVE ZipsOutcome(_, _)
ZipsOutcome(zips, acc) ==
    IF Len(zips) = 0 THEN acc
    ELSE LET v == ZipVerdict(zips[1]) IN
         IF v = "throw" THEN [acc EXCEPT !.threw = TRUE]
         ELSE ZipsOutcome(Tail(zips),
                 [acc EXCEPT !.added = @ \o ZipExtracted(zips[1]),
                             !.message = IF v = "ok" THEN @ ELSE v])

\* handleFiles(files): the names enqueued, in order, and the notice
HandleFilesOutcome(list) ==
    LET zips == SelectSeq(list, IsZip)
        images == SelectSeq(list, IsImage)
        none == [added |-> <<>>, message |-> NoMessage, threw |-> FALSE]
    IN  IF Len(zips) = 0 /\ Len(images) = 0
        THEN [none EXCEPT !.message = ToastNothing]
        ELSE LET z == ZipsOutcome(zips, none) IN
             IF z.threw THEN z
             ELSE [z EXCEPT !.added = @ \o [k \in 1..Len(images) |-> images[k].name]]

\* handleDrop / the file input's onChange: handleFiles on the dropped files
HandleFiles ==
    /\ handled = FALSE
    /\ LET r == HandleFilesOutcome(input)
           n == Len(r.added)
       IN  /\ nextId + n <= MaxJobs
           /\ items' = items \o [k \in 1..n |-> NewItem(nextId + k, r.added[k])]
           /\ nextId' = nextId + n
           /\ message' = IF r.message = NoMessage THEN message ELSE r.message
    /\ handled' = TRUE
    /\ UNCHANGED <<paletteMode, busy, conv, live, nextUrl, toggles, clears,
                   since, picks, resetFrom, input, exp, out, img>>

\* setToast's timer: window.setTimeout(() => setMessage(null), 3600)
DismissToast ==
    /\ message # NoMessage
    /\ message' = NoMessage
    /\ UNCHANGED <<img, items, paletteMode, busy, conv, live, nextId, nextUrl,
                   toggles, clears, since, picks, resetFrom, input, handled,
                   exp, out>>

(* ------------------------------- export -------------------------------- *)
IsDone(item) == item.status = "done"
IsSelected(item) == item.selected

\* const doneItems = items.filter((item) => item.status === "done")
DoneItems(its) == SelectSeq(its, IsDone)

\* mutant: the selection is taken from all items, not from the done ones
SelectedOfAll(its) == SelectSeq(its, IsSelected)

\* const selectedItems = doneItems.filter((item) => item.selected)
SelectedItems(its) == SelectSeq(DoneItems(its), IsSelected)

\* const suffix = paletteMode === "gray" ? "-gs" : "-dmg"
Suffix(mode) ==
    IF mode = "gray" THEN <<"-", "g", "s">> ELSE <<"-", "d", "m", "g">>

\* `${baseName(item.name)}${suffix}.png`
ExportName(name, mode) == BaseName(name) \o Suffix(mode) \o <<".", "p", "n", "g">>

\* the name of the archive a scope's export downloads
ZipName(scope, mode) ==
    IF mode = "gray" THEN <<"img2dmg", scope, "gs", "zip">>
    ELSE <<"img2dmg", scope, "zip">>

\* JSZip's zip.file(name, data): the entry of that name is added or replaced
ZipFile(zip, name, data) == {e \in zip : e[1] # name} \cup {<<name, data>>}

\* for (const item of ...) { if (!item.blobUrl) continue; ... zip.file(...) }
RECURSIVE Packed(_, _, _)
Packed(jobs, mode, zip) ==
    IF Len(jobs) = 0 THEN zip
    ELSE Packed(Tail(jobs), mode,
                IF jobs[1].blobUrl = NoUrl THEN zip
                ELSE ZipFile(zip, ExportName(jobs[1].name, mode), jobs[1].blobUrl))

\* the job set of an export: selectedItems or doneItems of the render
ExportSet(scope, its) ==
    IF scope = "selected" THEN SelectedItems(its) ELSE DoneItems(its)

\* mutant: the handler does not return on an empty job set
StartExportUnguarded(scope) ==
    /\ ~exp.active
    /\ exp' = [active |-> TRUE, scope |-> scope, mode |-> paletteMode,
                jobs |-> ExportSet(scope, items)]
    /\ out' = NoOut
    /\ UNCHANGED <<img, items, paletteMode, busy, conv, live, nextId, nextUrl,
                   toggles, clears, since, picks, resetFrom, message, input,
                   handled>>

\* downloadSelectedZip / downloadAllZip up to the first await: nothing
\* happens for an empty job set, else the job set and the mode are held by
\* the running call
StartExport(scope) ==
    /\ ~exp.active
    /\ IF Len(ExportSet(scope, items)) = 0
       THEN /\ out' = [NoOut EXCEPT !.kind = "returned"]
            /\ exp' = exp
       ELSE /\ exp' = [active |-> TRUE, scope |-> scope, mode |-> paletteMode,
                       jobs |-> ExportSet(scope, items)]
            /\ out' = NoOut
    /\ UNCHANGED <<img, items, paletteMode, busy, conv, live, nextId, nextUrl,
                   toggles, clears, since, picks, resetFrom, message, input,
                   handled>>

DownloadSelectedZip == StartExport("selected")

DownloadAllZip == StartExport("all")

\* the rest of downloadSelectedZip / downloadAllZip: every object URL is
\* fetched, the archive is generated and downloaded; fetch rejects for a
\* revoked object URL and the call ends there
CompleteExport ==
    /\ exp.active
    /\ IF \A k \in 1..Len(exp.jobs) : exp.jobs[k].blobUrl \in live
       THEN out' = [kind |-> "zip", name |-> ZipName(exp.scope, exp.mode),
                    entries |-> Packed(exp.jobs, exp.mode, {}),
                    jobs |-> [k \in 1..Len(exp.jobs) |-> exp.jobs[k].id]]
       ELSE out' = [NoOut EXCEPT !.kind = "rejected"]
    /\ exp' = NoExp
    /\ UNCHANGED <<img, items, paletteMode, busy, conv, live, nextId, nextUrl,
                   toggles, clears, since, picks, resetFrom, message, input,
                   handled>>

\* the card's Download button (rendered for a done item with a blobUrl)
DownloadOne ==
    /\ \E k \in 1..Len(items) :
          /\ items[k].status = "done"
          /\ items[k].blobUrl # NoUrl
          /\ out' = [kind |-> "file",
                     name |-> ExportName(items[k].name, paletteMode),
                     entries |-> {}, jobs |-> <<items[k].id>>]
    /\ UNCHANGED <<img, items, paletteMode, busy, conv, live, nextId, nextUrl,
                   toggles, clears, since, picks, resetFrom, message, input,
                   handled, exp>>

Next ==
    \/ EnqueueFiles
    \/ TogglePalette
    \/ Pick
    \/ SettleSuccess
    \/ SettleFailure
    \/ ToggleSelected
    \/ SelectAll
    \/ ClearSelection
    \/ ClearAll

Spec == Init /\ [][Next]_vars

\* every started conversion settles and the watcher effect runs when it can
FairSpec ==
    Spec /\ WF_vars(Pick) /\ WF_vars(SettleSuccess \/ SettleFailure)

\* the program with one drop of files handed to handleFiles
IoInit ==
    /\ items = <<>>
    /\ paletteMode = "dmg"
    /\ busy = FALSE
    /\ conv = NoConv
    /\ live = {}
    /\ nextId = 0
    /\ nextUrl = 0
    /\ toggles = 0
    /\ clears = 0
    /\ since = NoSince
    /\ picks = [id \in 1..MaxJobs |-> 0]
    /\ resetFrom = {}
    /\ message = NoMessage
    /\ input \in Drops
    /\ handled = FALSE
    /\ exp = NoExp
    /\ out = NoOut
    /\ img = NoImg

IoNext ==
    \/ HandleFiles
    \/ DismissToast
    \/ Pick
    \/ SettleSuccess
    \/ SettleFailure

IoSpec == IoInit /\ [][IoNext]_vars

\* the drops whose jobs are exported
ExportDrops ==
    {<<Image(APng), Image(AJpg)>>,
     <<Image(DotPng), Image(BPngUpper)>>,
     <<Image(BarePng)>>,
     <<Image(ATarPng)>>,
     <<Image(NotesTxt)>>,
     <<CorruptArchive(XZip), Image(APng)>>}

\* the whole program with one drop of files
ExportInit ==
    /\ items = <<>>
    /\ paletteMode = "dmg"
    /\ busy = FALSE
    /\ conv = NoConv
    /\ live = {}
    /\ nextId = 0
    /\ nextUrl = 0
    /\ toggles = 0
    /\ clears = 0
    /\ since = NoSince
    /\ picks = [id \in 1..MaxJobs |-> 0]
    /\ resetFrom = {}
    /\ message = NoMessage
    /\ input \in ExportDrops
    /\ handled = FALSE
    /\ exp = NoExp
    /\ out = NoOut
    /\ img = NoImg

ExportNext ==
    \/ HandleFiles
    \/ DismissToast
    \/ Pick
    \/ SettleSuccess
    \/ SettleFailure
    \/ TogglePalette
    \/ ToggleSelected
    \/ SelectAll
    \/ ClearSelection
    \/ ClearAll
    \/ DownloadOne
    \/ DownloadSelectedZip
    \/ DownloadAllZip
    \/ CompleteExport

ExportSpec == ExportInit /\ [][ExportNext]_vars

(* ------------------------------ quantizer ------------------------------ *)
MaxPixels == 2

DMG_PALETTE ==
    <<[r |-> 15, g |-> 56, b |-> 15], [r |-> 48, g |-> 98, b |-> 48],
      [r |-> 139, g |-> 172, b |-> 15], [r |-> 155, g |-> 188, b |-> 15]>>

GRAY_PALETTE ==
    <<[r |-> 15, g |-> 15, b |-> 15], [r |-> 86, g |-> 86, b |-> 86],
      [r |-> 170, g |-> 170, b |-> 170], [r |-> 240, g |-> 240, b |-> 240]>>

\* const palette = paletteMode === "gray" ? GRAY_PALETTE : DMG_PALETTE
PaletteOf(mode) == IF mode = "gray" THEN GRAY_PALETTE ELSE DMG_PALETTE

\* 0.2126 * r + 0.7152 * g + 0.0722 * b as a real number, times 10000
LumExact(r, g, b) == 2126 * r + 7152 * g + 722 * b

\* the channel values for which the same expression in IEEE-754 doubles
\* (products and sums rounded to nearest, left to right) is below the real
\* value by enough to fall under a multiple of 64: these are all of them
\* among the 256^3 values, and each has a real luminance of 64, 128 or 192
RoundsBelow ==
    {<<33, 61, 185>>, <<81, 54, 113>>, <<146, 37, 90>>,
     <<12, 175, 4>>, <<15, 152, 223>>, <<145, 118, 177>>, <<159, 131, 7>>,
     <<162, 108, 226>>, <<176, 121, 56>>,
     <<59, 249, 19>>, <<110, 219, 166>>, <<141, 222, 45>>, <<240, 185, 120>>}

\* Math.floor(lum / 64) with lum computed in doubles
FloorLum64(r, g, b) ==
    IF <<r, g, b>> \in RoundsBelow
    THEN (LumExact(r, g, b) \div 640000) - 1
    ELSE LumExact(r, g, b) \div 640000

\* mutant: a luminance on a band boundary falls into the band below
LevelOpenLow(r, g, b) ==
    LET f == (LumExact(r, g, b) - 1) \div 640000
    IN  IF f > 3 THEN 3 ELSE IF f < 0 THEN 0 ELSE f

\* const level = Math.min(3, Math.max(0, Math.floor(lum / 64)))
Level(r, g, b) ==
    LET f == FloorLum64(r, g, b)
    IN  IF f > 3 THEN 3 ELSE IF f < 0 THEN 0 ELSE f

\* mutant: the loop has no test of alpha
ShadedAlways(r, g, b, a, palette) ==
    LET shade == palette[Level(r, g, b) + 1]
    IN  <<shade.r, shade.g, shade.b, a>>

\* one turn of the loop: the four bytes of a pixel after it
Shaded(r, g, b, a, palette) ==
    IF a = 0 THEN <<r, g, b, a>>
    ELSE LET shade == palette[Level(r, g, b) + 1]
         IN  <<shade.r, shade.g, shade.b, a>>

\* for (let i = 0; i < data.length; i += 4) { ... }: imageData.data after
\* the loop
Quantized(data, palette) ==
    [j \in 1..Len(data) |->
        LET i == 4 * ((j - 1) \div 4)
        IN  Shaded(data[i + 1], data[i + 2], data[i + 3], data[i + 4],
                   palette)[j - i]]

\* the colours and the pixels the canvas is filled with
GrayValues == {0, 63, 64, 127, 128, 191, 192, 255}

Colours ==
    {<<v, v, v>> : v \in GrayValues}
        \cup {<<33, 61, 185>>, <<12, 175, 4>>, <<59, 249, 19>>}
        \cup {<<255, 0, 0>>, <<0, 255, 0>>, <<0, 0, 255>>}

Pixels ==
    {c \o <<a>> : c \in Colours, a \in {0, 255}}
        \cup {<<64, 64, 64, 128>>, <<255, 255, 255, 1>>}

\* imageData.data of an image: its pixels' bytes, one after the other
DataOf(pixels) ==
    [j \in 1..(4 * Len(pixels)) |-> pixels[((j - 1) \div 4) + 1][((j - 1) % 4) + 1]]

Canvases ==
    {DataOf(ps) : ps \in UNION {[1..n -> Pixels] : n \in 1..MaxPixels}}

\* convertToDmg from getImageData to putImageData
ConvertToDmg ==
    /\ img.passes = 0
    /\ img' = [img EXCEPT !.data = Quantized(img.src, PaletteOf(img.mode)),
                          !.passes = 1]
    /\ UNCHANGED <<items, paletteMode, busy, conv, live, nextId, nextUrl,
                   toggles, clears, since, picks, resetFrom, message, input,
                   handled, exp, out>>

\* convertToDmg on the image an earlier call produced, under the same palette
ConvertAgain ==
    /\ img.passes = 1
    /\ img' = [img EXCEPT !.src = img.data,
                          !.data = Quantized(img.data, PaletteOf(img.mode)),
                          !.passes = 2]
    /\ UNCHANGED <<items, paletteMode, busy, conv, live, nextId, nextUrl,
                   toggles, clears, since, picks, resetFrom, message, input,
                   handled, exp, out>>

\* the canvas holds an image under either palette
PixelInit ==
    /\ items = <<>>
    /\ paletteMode = "dmg"
    /\ busy = FALSE
    /\ conv = NoConv
    /\ live = {}
    /\ nextId = 0
    /\ nextUrl = 0
    /\ toggles = 0
    /\ clears = 0
    /\ since = NoSince
    /\ picks = [id \in 1..MaxJobs |-> 0]
    /\ resetFrom = {}
    /\ message = NoMessage
    /\ input = <<>>
    /\ handled = FALSE
    /\ exp = NoExp
    /\ out = NoOut
    /\ \E data \in Canvases, mode \in PaletteModes :
          img = [src |-> data, mode |-> mode, data |-> <<>>, passes |-> 0]

PixelNext ==
    \/ ConvertToDmg
    \/ ConvertAgain

PixelSpec == PixelInit /\ [][PixelNext]_vars

(* ------------------------------- claims -------------------------------- *)
\* a conversion settles in this step
Settles == conv.active /\ ~conv'.active

StatusAt(its, id) ==
    LET k == CHOOSE i \in 1..Len(its) : its[i].id = id IN its[k].status

Processing == {i \in 1..Len(items) : items[i].status = "processing"}

\* C1: in every reachable state at most one job of the list has status
\* processing.
C1_AtMostOneProcessing == Cardinality(Processing) <= 1

\* one job is being converted while another waits, after toggles and a clear
C1_Witness ==
    /\ Cardinality(Processing) = 1
    /\ \E i \in 1..Len(items) : items[i].status = "queued"
    /\ toggles > 0
    /\ clears > 0

\* C2: when the palette mode was toggled while a conversion was in flight,
\* the settling of that conversion (success or failure) leaves the job list
\* as it is: the job stays queued.
C2_StaleResultDiscarded ==
    [][(Settles /\ since.toggled) => items' = items]_vars

\* C3: every object URL that was created and not revoked is the blobUrl of
\* exactly one job of the list.
C3_LiveBufferOwnedOnce ==
    \A u \in live : Cardinality({i \in 1..Len(items) : items[i].blobUrl = u}) = 1

\* C4: when the list was cleared while a conversion was in flight, the
\* settling of that conversion leaves the job list exactly as it is and the
\* processor idle.
C4_ClearedResultDropped ==
    [][(Settles /\ since.cleared) => (items' = items /\ busy' = FALSE)]_vars

\* a conversion cleared in flight has resolved (its object URL exists) while
\* jobs enqueued after the clear wait in the list, and the processor is idle
C4_Witness ==
    /\ conv.active = FALSE
    /\ since.cleared
    /\ live # {}
    /\ busy = FALSE
    /\ Len(items) > 0
    /\ \A i \in 1..Len(items) : items[i].status = "queued"

\* C5: a job's status changes only queued -> processing, processing -> done,
\* processing -> error, or to queued in a step that changes the palette mode.
C5_StatusTransitions ==
    [][\A id \in Ids(items) \cap Ids(items') :
          LET old == StatusAt(items, id)
              new == StatusAt(items', id)
          IN  old # new =>
                 \/ old = "queued" /\ new = "processing"
                 \/ old = "processing" /\ new \in {"done", "error"}
                 \/ paletteMode' # paletteMode /\ new = "queued"]_vars

\* C6: for every job of the list, blobUrl, width and height are present iff
\* the status is done, and error is present iff the status is error.
C6_FieldsMatchStatus ==
    \A i \in 1..Len(items) :
        /\ (items[i].blobUrl # NoUrl) <=> (items[i].status = "done")
        /\ (items[i].width # NoDim) <=> (items[i].status = "done")
        /\ (items[i].height # NoDim) <=> (items[i].status = "done")
        /\ (items[i].error # NoError) <=> (items[i].status = "error")

\* after a palette-mode change the list holds a done job, a failed job and a
\* job that is queued again
C6_Witness ==
    /\ toggles > 0
    /\ \E i, j, k \in 1..Len(items) :
          /\ items[i].status = "done"
          /\ items[j].status = "error"
          /\ items[k].status = "queued"

\* C7: when every started conversion settles and the user's actions stop,
\* every job of the list ends done or error, also when conversions fail.
C7_EveryJobSettles ==
    <>[](\A i \in 1..Len(items) : items[i].status \in {"done", "error"})

\* a conversion failed and a job behind it in the list was converted
C7_Witness ==
    /\ toggles = 0
    /\ busy = FALSE
    /\ \E i, j \in 1..Len(items) :
          /\ i < j
          /\ items[i].status = "error"
          /\ items[j].status = "done"

\* C8: a step that changes the palette mode leaves every job queued with no
\* blobUrl, width, height or error, and keeps the jobs' number, order, id,
\* name and selected flag.
C8_ToggleResetsEveryJob ==
    [][paletteMode' # paletteMode =>
          /\ Len(items') = Len(items)
          /\ \A i \in 1..Len(items) :
                /\ items'[i].status = "queued"
                /\ items'[i].blobUrl = NoUrl
                /\ items'[i].width = NoDim
                /\ items'[i].height = NoDim
                /\ items'[i].error = NoError
                /\ items'[i].id = items[i].id
                /\ items'[i].name = items[i].name
                /\ items'[i].selected = items[i].selected]_vars

\* the mode was just toggled over a list that held a processing, a done and
\* a failed job, one of them selected: the conversion is still in flight and
\* nothing was picked since
C8_Witness ==
    /\ {"processing", "done", "error"} \subseteq resetFrom
    /\ conv.active /\ since.toggled
    /\ Len(items) = 3
    /\ \A i \in 1..Len(items) : items[i].status = "queued"
    /\ \E i \in 1..Len(items) : items[i].selected

\* C9: between two palette-mode changes a job is picked at most once, and a
\* job is picked only when its status is queued (never when done or error).
C9_NoRetry ==
    /\ [](\A id \in 1..MaxJobs : picks[id] <= 1)
    /\ [][\A id \in 1..MaxJobs :
            picks'[id] > picks[id] =>
                \E i \in 1..Len(items) :
                    items[i].id = id /\ items[i].status = "queued"]_vars

\* after a palette-mode change a job was picked once, failed, and stays
\* failed while the processor is idle with nothing queued
C9_Witness ==
    /\ toggles > 0
    /\ busy = FALSE
    /\ FirstQueued(items) = 0
    /\ \E i \in 1..Len(items) :
          items[i].status = "error" /\ picks[items[i].id] = 1

\* C10: a job becomes processing only in a step taken while the processor is
\* idle, and it is the first job of the list whose status is queued.
C10_PicksFirstQueuedWhenIdle ==
    [][\A j \in 1..Len(items') :
          (/\ j <= Len(items)
           /\ items'[j].id = items[j].id
           /\ items'[j].status = "processing"
           /\ items[j].status # "processing")
          => /\ busy = FALSE
             /\ items[j].status = "queued"
             /\ \A k \in 1..(j - 1) : items[k].status # "queued"]_vars

\* the job just picked stands between a finished job and a queued one
C10_Witness ==
    /\ conv.active /\ since = NoSince
    /\ \E j \in 2..(Len(items) - 1) :
          /\ items[j].id = conv.id
          /\ items[j].status = "processing"
          /\ items[j - 1].status \in {"done", "error"}
          /\ items[j + 1].status = "queued"

\* C11: a step that makes the list longer (an enqueue) keeps every existing
\* job as it is and where it is, appends only jobs that are queued, not
\* selected and without result fields, and leaves the conversion in flight
\* and the busy flag unchanged.
C11_EnqueueAppendsOnly ==
    [][Len(items') > Len(items) =>
          /\ SubSeq(items', 1, Len(items)) = items
          /\ \A k \in (Len(items) + 1)..Len(items') :
                /\ items'[k].status = "queued"
                /\ items'[k].selected = FALSE
                /\ items'[k].blobUrl = NoUrl
                /\ items'[k].error = NoError
                /\ items'[k].id \notin Ids(items)
          /\ conv' = conv
          /\ busy' = busy]_vars

\* files were enqueued while a conversion was in flight: the list was
\* cleared during the conversion and holds jobs again before it settled
C11_Witness ==
    /\ conv.active
    /\ since.cleared
    /\ Len(items) > 0
    /\ \A i \in 1..Len(items) : items[i].status = "queued"

(* ------------------------- claims on ingestion ------------------------- *)
\* handleFiles runs in this step
Ingests == handled = FALSE /\ handled' = TRUE

\* the drop is one archive that JSZip can load
OneArchive == Len(input) = 1 /\ IsZip(input[1]) /\ ~input[1].corrupt

\* the names of the entries of an archive that are not directories, in order
RECURSIVE EntryNames(_)
EntryNames(es) ==
    IF Len(es) = 0 THEN <<>>
    ELSE IF es[1].dir THEN EntryNames(Tail(es))
    ELSE <<es[1].name>> \o EntryNames(Tail(es))

\* the lowercased characters after the last dot of a name that has a dot
AfterLastDot(name) ==
    LET d == CHOOSE i \in 1..Len(name) :
                 name[i] = "." /\ \A j \in (i + 1)..Len(name) : name[j] # "."
    IN  ToLowerCase(SubSeq(name, d + 1, Len(name)))

HasDot(name) == \E i \in 1..Len(name) : name[i] = "."

C14_ExtensionAfterLastDot ==
    \A i \in 1..Len(items) :
        /\ HasDot(items[i].name)
        /\ items[i].ext = AfterLastDot(items[i].name)

(* --------------------------- claims on export -------------------------- *)
\* a name without its last dot and what follows it
StripExt(name) ==
    IF HasDot(name)
    THEN LET d == CHOOSE i \in 1..Len(name) :
                     name[i] = "." /\ \A j \in (i + 1)..Len(name) : name[j] # "."
         IN  SubSeq(name, 1, d - 1)
    ELSE name

ModeSuffix(mode) ==
    IF mode = "gray" THEN <<"-", "g", "s", ".", "p", "n", "g">>
    ELSE <<"-", "d", "m", "g", ".", "p", "n", "g">>

\* a card's download or an archive export is invoked / an archive is produced
DownloadsOne == out' # out /\ out'.kind = "file"
ExportStarts == ~exp.active /\ exp'.active
ExportProduces == exp.active /\ ~exp'.active /\ out'.kind = "zip"

\* the base name when a name that would be left empty is kept whole
StripExtOrName(name) == IF StripExt(name) = <<>> THEN name ELSE StripExt(name)

\* the names a download step gives: the base name is the stripped name, or,
\* with keepWhole, the whole name where the stripped name would be empty
NamesFollow(keepWhole) ==
    LET Named(name) == IF keepWhole THEN StripExtOrName(name)
                       ELSE StripExt(name)
    IN  /\ DownloadsOne =>
              \E k \in 1..Len(items) :
                  /\ items[k].id = out'.jobs[1]
                  /\ out'.name = Named(items[k].name) \o ModeSuffix(paletteMode)
        /\ ExportStarts => exp'.mode = paletteMode
        /\ ExportProduces =>
              {e[1] : e \in out'.entries} =
                  {Named(exp.jobs[k].name) \o ModeSuffix(exp.mode) :
                       k \in 1..Len(exp.jobs)}

\* C15 as stated: a downloaded file and an archive entry are named by the
\* source name without its final extension, then -gs or -dmg by the mode at
\* the moment of the export, then .png.
C15_ExportNameStripsExtension == [][NamesFollow(FALSE)]_vars

\* C15 as amended: the same, but a source name that would be left empty
\* without its final extension (such as ".png") is kept whole.
C15_ExportNameStripsExtensionOrKeeps == [][NamesFollow(TRUE)]_vars

\* the job named ".png" was converted again under gray and downloaded
C15_Witness ==
    /\ out.kind = "file"
    /\ out.name = DotPng \o ModeSuffix("gray")

\* C16: the archive an export produces has as many entries as jobs exported.
C16_OneEntryPerJob ==
    out.kind = "zip" => Cardinality(out.entries) = Len(out.jobs)

\* C17: an export's job set is, at its invocation, exactly the done and
\* selected jobs (selected) or exactly the done jobs (all), in list order; a
\* card's download is of a done job.
C17_OnlyDoneExported ==
    [][/\ ExportStarts =>
             LET want == {i \in 1..Len(items) :
                             /\ items[i].status = "done"
                             /\ exp'.scope = "selected" => items[i].selected}
             IN  /\ Len(exp'.jobs) = Cardinality(want)
                 /\ {exp'.jobs[k] : k \in 1..Len(exp'.jobs)} =
                        {items[i] : i \in want}
       /\ ExportProduces =>
             out'.jobs = [k \in 1..Len(exp.jobs) |-> exp.jobs[k].id]
       /\ DownloadsOne =>
             \E k \in 1..Len(items) :
                 items[k].id = out'.jobs[1] /\ items[k].status = "done"]_vars

\* an export of the selection runs with one job while another job of the
\* list is selected but not done
C17_Witness ==
    /\ exp.active
    /\ exp.scope = "selected"
    /\ Len(exp.jobs) = 1
    /\ exp.jobs[1].blobUrl \in live
    /\ \E i \in 1..Len(items) :
          items[i].selected /\ items[i].status # "done"

\* an archive export is invoked and neither starts nor completes an export
EmptyExportInvoked ==
    ~exp.active /\ ~exp'.active /\ out' # out /\ out'.kind # "file"

\* no export runs on an empty job set and no archive is without jobs
NoEmptyArchive ==
    /\ ExportStarts => Len(exp'.jobs) > 0
    /\ out'.kind = "zip" => (Len(out'.jobs) > 0 /\ out'.entries # {})

C19_NoSilentFailure ==
    [][/\ (Ingests /\ Len(items') = Len(items)) => message' # NoMessage
       /\ (Settles /\ nextUrl' = nextUrl /\ conv.id \in Ids(items)) =>
             \/ message' # NoMessage
             \/ \E i \in 1..Len(items') :
                   items'[i].id = conv.id /\ items'[i].error # NoError
       /\ (out' # out /\ out'.kind = "rejected") => message' # NoMessage]_vars

\* C20: a job is created unselected; a step that changes a job's selected
\* flag changes nothing of the queue (no status, busy flag, conversion or
\* palette mode), and the flag is set only on a done job.
C20_SelectedOnlyByUser ==
    [][/\ \A k \in 1..Len(items') :
             items'[k].id \notin Ids(items) => items'[k].selected = FALSE
       /\ \A i \in 1..Len(items), k \in 1..Len(items') :
             (items'[k].id = items[i].id
                 /\ items'[k].selected # items[i].selected)
             => /\ items'[k].status = items[i].status
                /\ busy' = busy /\ conv' = conv /\ paletteMode' = paletteMode
                /\ items'[k].selected => items[i].status = "done"]_vars

\* a selected job went through a palette-mode change and a pick and is still
\* selected
C20_Witness ==
    /\ toggles > 0
    /\ \E i \in 1..Len(items) :
          items[i].selected /\ items[i].status = "processing"

(* ------------------- claims on the processor and the list --------------- *)
\* a conversion starts in this step
Starts == ~conv.active /\ conv'.active

\* C24: the busy flag is true exactly while a conversion is in flight; a
\* conversion starts only from an idle processor and sets the flag, and every
\* settle clears it.
C24_BusyIffConverting ==
    [][/\ busy = conv.active
       /\ busy' = conv'.active
       /\ Starts => (~busy /\ busy')
       /\ Settles => ~busy']_vars

\* a conversion is in flight after the list was cleared and the palette mode
\* changed under it, and new jobs wait behind it
C24_Witness ==
    /\ busy
    /\ conv.active
    /\ since.cleared
    /\ since.toggled
    /\ Len(items) > 0

\* C25: every done job of the list holds an object URL that was created and
\* not revoked.
C25_DoneBufferLive ==
    \A i \in 1..Len(items) :
        items[i].status = "done" =>
            (items[i].blobUrl # NoUrl /\ items[i].blobUrl \in live)

\* a job is done again after a palette-mode change revoked its first result,
\* next to a job whose result came in after the change it was started before
C25_Witness ==
    /\ toggles > 0
    /\ nextUrl > Len(items)
    /\ \E i \in 1..Len(items) :
          /\ items[i].status = "done"
          /\ items[i].blobUrl \in live
          /\ items[i].blobUrl > 1

\* C26: every job of the list has a name with an extension (the lowercased
\* text after its last dot) that is one of png, jpg, jpeg, webp.
C26_JobsHaveSupportedExt ==
    \A i \in 1..Len(items) :
        /\ HasDot(items[i].name)
        /\ AfterLastDot(items[i].name) \in {<<"p", "n", "g">>, <<"j", "p", "g">>,
                                            <<"j", "p", "e", "g">>,
                                            <<"w", "e", "b", "p">>}

(* ------------------------- claims on the quantizer ---------------------- *)
\* the pixels of a buffer, by number
PixelsOf(data) == 1..(Len(data) \div 4)

\* the four bytes of pixel p of a buffer
PixelAt(data, p) == SubSeq(data, 4 * p - 3, 4 * p)

\* a palette entry as three bytes
Rgb(entry) == <<entry.r, entry.g, entry.b>>

\* C21: after a conversion, under either palette, every pixel whose alpha is
\* 0 has the R, G, B and alpha it had before.
C21_TransparentUntouched ==
    img.passes > 0 =>
        /\ Len(img.data) = Len(img.src)
        /\ \A p \in PixelsOf(img.src) :
              PixelAt(img.src, p)[4] = 0 =>
                  PixelAt(img.data, p) = PixelAt(img.src, p)

\* a white pixel of alpha 0 stands next to a pixel that was recoloured
C21_Witness ==
    /\ img.passes = 1
    /\ \E p, q \in PixelsOf(img.src) :
          /\ PixelAt(img.src, p) = <<255, 255, 255, 0>>
          /\ PixelAt(img.data, p) = <<255, 255, 255, 0>>
          /\ PixelAt(img.data, q) # PixelAt(img.src, q)

\* C22: after a conversion every pixel of alpha > 0 has the R, G, B of the
\* palette entry at index clamp(floor(L / 64), 0, 3), L being
\* 0.2126 R + 0.7152 G + 0.0722 B, and the alpha it had before.
C22_PaletteEntryOfBand ==
    img.passes = 1 =>
        \A p \in PixelsOf(img.src) :
            LET px == PixelAt(img.src, p)
                f == LumExact(px[1], px[2], px[3]) \div 640000
                idx == IF f > 3 THEN 3 ELSE IF f < 0 THEN 0 ELSE f
            IN  px[4] > 0 =>
                    /\ SubSeq(PixelAt(img.data, p), 1, 3) =
                           Rgb(PaletteOf(img.mode)[idx + 1])
                    /\ PixelAt(img.data, p)[4] = px[4]

\* the band of a gray value: 0..63, 64..127, 128..191, 192..255
GrayBand(v) == IF v < 64 THEN 0 ELSE IF v < 128 THEN 1 ELSE IF v < 192 THEN 2 ELSE 3

\* C23: after a conversion a gray pixel R = G = B = v of alpha > 0 has the
\* palette entry of the band v lies in (63 in 0, 64 and 127 in 1, 128 and 191
\* in 2, 192 and 255 in 3), and every pixel of alpha > 0 has one of the four
\* palette entries.
C23_BandsClosedLow ==
    img.passes = 1 =>
        \A p \in PixelsOf(img.src) :
            LET px == PixelAt(img.src, p)
                rgb == SubSeq(PixelAt(img.data, p), 1, 3)
            IN  px[4] > 0 =>
                    /\ \E k \in 1..4 : rgb = Rgb(PaletteOf(img.mode)[k])
                    /\ (px[1] = px[2] /\ px[2] = px[3]) =>
                           rgb = Rgb(PaletteOf(img.mode)[GrayBand(px[1]) + 1])

\* gray pixels on both sides of a band boundary were converted
C23_Witness ==
    /\ img.passes = 1
    /\ img.mode = "gray"
    /\ \E p, q \in PixelsOf(img.src) :
          /\ PixelAt(img.src, p) = <<63, 63, 63, 255>>
          /\ PixelAt(img.data, p) = <<15, 15, 15, 255>>
          /\ PixelAt(img.src, q) = <<64, 64, 64, 255>>
          /\ PixelAt(img.data, q) = <<86, 86, 86, 255>>

\* C27: converting an image the quantizer produced again under the same
\* palette changes no pixel.
C27_QuantizerIdempotent ==
    img.passes = 2 => img.data = img.src

====
